---- MODULE Spec2Model ----
(***************************************************************************)
(* Password strength meter (src/pst.py): the scoring function              *)
(* check_password_strength, its helpers has_sequential_chars and           *)
(* has_repeated_chars, and the generator generate_strong_password.         *)
(*                                                                         *)
(* A Python str is a sequence of code points (the values of ord()).        *)
(***************************************************************************)
EXTENDS Integers, Sequences, FiniteSets, TLC

VARIABLES
    pc,            \* position of the caller: which function has run
    password,      \* the argument of the scoring / scanning functions
    score,         \* first component of check_password_strength's result
    raw_score,     \* the local `score` when check_password_strength returns,
                   \* before line 110 clamps it (0 on the early return)
    feedback,      \* second component of check_password_strength's result
    error_shown,   \* whether st.error was called (common-password exit)
    seq_ret,       \* value returned by has_sequential_chars(password)
    rep_ret,       \* value returned by has_repeated_chars(password)
    length,        \* the argument of generate_strong_password
    gen_password,  \* the local list `password` of generate_strong_password
    fill_i,        \* iterations done of the fill loop (line 47)
    shuf_i         \* index of random.shuffle's loop (line 50)

vars == <<pc, password, score, raw_score, feedback, error_shown, seq_ret, rep_ret,
          length, gen_password, fill_i, shuf_i>>

scorer_vars == <<password, score, raw_score, feedback, error_shown, seq_ret, rep_ret>>
gen_vars == <<length, gen_password, fill_i, shuf_i>>

(***************************************************************************)
(* Bounds of the exploration.                                              *)
(***************************************************************************)
\* every string over Alphabet of at most MaxLen characters is an input
MaxLen == 3
\* generate_strong_password is called with every length in -1..MaxGenLen
MaxGenLen == 8

None == "none"

Range(s) == {s[i] : i \in 1..Len(s)}

(***************************************************************************)
(* Program constants.                                                      *)
(***************************************************************************)
\* default of the parameter min_length (lines 7 and 26)
min_length == 3

\* lines 34-37
uppercase == <<65, 66, 67, 68, 69, 70, 71, 72, 73, 74, 75, 76, 77, 78, 79, 80,
               81, 82, 83, 84, 85, 86, 87, 88, 89, 90>>
lowercase == <<97, 98, 99, 100, 101, 102, 103, 104, 105, 106, 107, 108, 109,
               110, 111, 112, 113, 114, 115, 116, 117, 118, 119, 120, 121, 122>>
digits == <<48, 49, 50, 51, 52, 53, 54, 55, 56, 57>>
\* '!@#$%^&*'
specials == <<33, 64, 35, 36, 37, 94, 38, 42>>
\* line 46
all_chars == uppercase \o lowercase \o digits \o specials

\* lines 54-60
common_passwords == <<
    <<112, 97, 115, 115, 119, 111, 114, 100>>,                \* password
    <<49, 50, 51, 52, 53, 54>>,                               \* 123456
    <<49, 50, 51, 52, 53, 54, 55, 56>>,                       \* 12345678
    <<113, 119, 101, 114, 116, 121>>,                         \* qwerty
    <<97, 98, 99, 49, 50, 51>>,                               \* abc123
    <<112, 97, 115, 115, 119, 111, 114, 100, 49>>,            \* password1
    <<97, 100, 109, 105, 110>>,                               \* admin
    <<108, 101, 116, 109, 101, 105, 110>>,                    \* letmein
    <<119, 101, 108, 99, 111, 109, 101>>,                     \* welcome
    <<109, 111, 110, 107, 101, 121>>,                         \* monkey
    <<115, 117, 110, 115, 104, 105, 110, 101>>,               \* sunshine
    <<112, 97, 115, 115, 119, 111, 114, 100, 49, 50, 51>>,    \* password123
    <<102, 111, 111, 116, 98, 97, 108, 108>>,                 \* football
    <<105, 108, 111, 118, 101, 121, 111, 117>>,               \* iloveyou
    <<49, 50, 51, 52, 53, 54, 55>>,                           \* 1234567
    <<49, 50, 51, 52, 53, 54, 55, 56, 57, 48>>,               \* 1234567890
    <<49, 50, 51, 49, 50, 51>>,                               \* 123123
    <<49, 50, 51, 52, 53>>,                                   \* 12345
    <<49, 50, 51, 52>>,                                       \* 1234
    <<49, 49, 49, 49, 49, 49>>,                               \* 111111
    <<48, 48, 48, 48, 48, 48>>,                               \* 000000
    <<112, 97, 115, 115, 119, 48, 114, 100>> >>               \* passw0rd

\* the feedback messages (lines 73, 79, 85, 91, 97, 101, 106)
MsgLength == "Password should be at least 8 characters long"
MsgUpper == "Include uppercase letters"
MsgLower == "Include lowercase letters"
MsgDigit == "Add at least one number (0-9)"
MsgSpecial == "Include at least one special character (!@#$%^&*)"
MsgSequential == "Avoid sequential characters (e.g., 'abc', '123')"
MsgRepeated == "Avoid repeated characters (e.g., 'aaa', '111')"

(***************************************************************************)
(* str.lower() and the regular expressions of the scorer.                  *)
(***************************************************************************)
\* str.lower() of one character.  ASCII capitals move by 32; U+212A KELVIN
\* SIGN lowers to 'k'; U+0130 lowers to the two characters 'i' U+0307; the
\* other characters the model uses (ASCII non-letters, lower-case letters,
\* non-ASCII digits) are unchanged.
lower_char(c) ==
    IF c >= 65 /\ c <= 90 THEN <<c + 32>>
    ELSE IF c = 8490 THEN <<107>>
    ELSE IF c = 304 THEN <<105, 775>>
    ELSE <<c>>

RECURSIVE lower(_)
lower(s) == IF s = <<>> THEN <<>> ELSE lower_char(Head(s)) \o lower(Tail(s))

\* re.search(r"[A-Z]", password)
SearchUpper(s) == \E i \in 1..Len(s) : s[i] >= 65 /\ s[i] <= 90

\* re.search(r"[a-z]", password)
SearchLower(s) == \E i \in 1..Len(s) : s[i] >= 97 /\ s[i] <= 122

\* The pattern is a str, so \d matches every character of Unicode category
\* Nd, not only 0-9.  The blocks listed: ASCII, Arabic-Indic, Extended
\* Arabic-Indic, Devanagari, Fullwidth.
IsDecimalDigit(c) ==
    \/ c >= 48 /\ c <= 57
    \/ c >= 1632 /\ c <= 1641
    \/ c >= 1776 /\ c <= 1785
    \/ c >= 2406 /\ c <= 2415
    \/ c >= 65296 /\ c <= 65305

\* re.search(r"\d", password)
SearchDigit(s) == \E i \in 1..Len(s) : IsDecimalDigit(s[i])

\* re.search(r"[!@#$%^&*]", password)
SearchSpecial(s) == \E i \in 1..Len(s) : s[i] \in {33, 64, 35, 36, 37, 94, 38, 42}

(***************************************************************************)
(* has_sequential_chars and has_repeated_chars, loop by loop.              *)
(***************************************************************************)
\* s[i:i+n] with a 0-based start i, as Python slices
Slice(s, i, n) == SubSeq(s, i + 1, i + n)

\* lines 11-15: the loop over j from index j on; slice is 1-based here, so
\* Python's current_slice[j] is slice[j + 1]
RECURSIVE AscendingFrom(_, _, _)
AscendingFrom(slice, j, n) ==
    IF j >= n THEN TRUE
    ELSE IF slice[j + 1] - slice[j] # 1 THEN FALSE
    ELSE AscendingFrom(slice, j + 1, n)

\* lines 17-21
RECURSIVE DescendingFrom(_, _, _)
DescendingFrom(slice, j, n) ==
    IF j >= n THEN TRUE
    ELSE IF slice[j] - slice[j + 1] # 1 THEN FALSE
    ELSE DescendingFrom(slice, j + 1, n)

\* lines 8-24: the loop over i in range(len(s) - n + 1)
RECURSIVE SequentialFrom(_, _, _)
SequentialFrom(s, i, n) ==
    IF i >= Len(s) - n + 1 THEN FALSE
    ELSE LET current_slice == Slice(s, i, n)
             is_ascending == AscendingFrom(current_slice, 1, n)
             is_descending == DescendingFrom(current_slice, 1, n)
         IN  IF is_ascending \/ is_descending THEN TRUE
             ELSE SequentialFrom(s, i + 1, n)

AscendingOnly(s, n) ==
    \E i \in 0..(Len(s) - n) : AscendingFrom(Slice(s, i, n), 1, n)
has_sequential_chars(s, n) == SequentialFrom(s, 0, n)

\* lines 27-31
RECURSIVE RepeatedFrom(_, _, _)
RepeatedFrom(s, i, n) ==
    IF i >= Len(s) - n + 1 THEN FALSE
    ELSE LET current_slice == Slice(s, i, n)
         IN  IF Cardinality(Range(current_slice)) = 1 THEN TRUE
             ELSE RepeatedFrom(s, i + 1, n)

has_repeated_chars(s, n) == RepeatedFrom(s, 0, n)

(***************************************************************************)
(* check_password_strength, rule by rule.  acc is the pair of locals       *)
(* (score, feedback).                                                      *)
(***************************************************************************)
Award(acc) == [acc EXCEPT !.score = @ + 1]
Complain(acc, msg) == [acc EXCEPT !.feedback = Append(@, msg)]
Penalise(acc, msg) == [score |-> acc.score - 1, feedback |-> Append(acc.feedback, msg)]

\* line 65
IsCommonExact(p) == \E k \in 1..Len(common_passwords) : p = common_passwords[k]
IsCommon(p) == \E k \in 1..Len(common_passwords) : lower(p) = common_passwords[k]

\* lines 70-73
LengthCheck(acc, p) == IF Len(p) >= 8 THEN Award(acc) ELSE Complain(acc, MsgLength)

\* lines 76-79
UppercaseCheck(acc, p) == IF SearchUpper(p) THEN Award(acc) ELSE Complain(acc, MsgUpper)

\* lines 82-85
LowercaseCheck(acc, p) == IF SearchLower(p) THEN Award(acc) ELSE Complain(acc, MsgLower)

\* lines 88-91
DigitCheck(acc, p) == IF SearchDigit(p) THEN Award(acc) ELSE Complain(acc, MsgDigit)

\* lines 94-97
SpecialCheck(acc, p) == IF SearchSpecial(p) THEN Award(acc) ELSE Complain(acc, MsgSpecial)

\* lines 100-102
SequentialCheckNoPenalty(acc, p) ==
    IF has_sequential_chars(p, min_length) THEN Complain(acc, MsgSequential) ELSE acc
SequentialCheck(acc, p) ==
    IF has_sequential_chars(p, min_length) THEN Penalise(acc, MsgSequential) ELSE acc

\* lines 105-107
RepeatedCheckNoPenalty(acc, p) ==
    IF has_repeated_chars(p, min_length) THEN Complain(acc, MsgRepeated) ELSE acc
RepeatedCheck(acc, p) ==
    IF has_repeated_chars(p, min_length) THEN Penalise(acc, MsgRepeated) ELSE acc

\* line 110
NoClamp(s) == s
ClampScore(s) == IF s > 0 THEN s ELSE 0

\* lines 69-112: the path after the common-password test
RulesSwapped(p) ==
    LET a0 == [score |-> 0, feedback |-> <<>>]
        a1 == UppercaseCheck(a0, p)
        a2 == LengthCheck(a1, p)
        a3 == LowercaseCheck(a2, p)
        a4 == DigitCheck(a3, p)
        a5 == SpecialCheck(a4, p)
        a6 == SequentialCheck(a5, p)
        a7 == RepeatedCheck(a6, p)
    IN  [score |-> ClampScore(a7.score), raw |-> a7.score,
         feedback |-> a7.feedback, error |-> FALSE]
Rules(p) ==
    LET a0 == [score |-> 0, feedback |-> <<>>]
        a1 == LengthCheck(a0, p)
        a2 == UppercaseCheck(a1, p)
        a3 == LowercaseCheck(a2, p)
        a4 == DigitCheck(a3, p)
        a5 == SpecialCheck(a4, p)
        a6 == SequentialCheck(a5, p)
        a7 == RepeatedCheck(a6, p)
    IN  [score |-> ClampScore(a7.score), raw |-> a7.score,
         feedback |-> a7.feedback, error |-> FALSE]

\* lines 53-112
check_password_strength(p) ==
    IF IsCommon(p)
    THEN [score |-> 0, raw |-> 0, feedback |-> <<>>, error |-> TRUE]
    ELSE Rules(p)

(***************************************************************************)
(* The inputs of the scorer.                                               *)
(***************************************************************************)
\* A B C, a b c, 1 2 3, $, ARABIC-INDIC DIGIT THREE, KELVIN SIGN
Alphabet == {65, 66, 67, 97, 98, 99, 49, 50, 51, 36, 1635, 8490}

ShortStrings == UNION {[1..n -> Alphabet] : n \in 0..MaxLen}

\* prefixes that bring a short string to the length threshold: none,
\* "-_-_-" (no class), "A$-_-_-_" (upper and special)
Pads == { <<>>, <<45, 95, 45, 95, 45>>, <<65, 36, 45, 95, 45, 95, 45, 95>> }

\* the characters whose lower() is c
Unlower(c) ==
    {c} \cup (IF c >= 97 /\ c <= 122 THEN {c - 32} ELSE {})
        \cup (IF c = 107 THEN {8490} ELSE {})

\* every string that equals c up to letter casing
RECURSIVE Casings(_)
Casings(c) ==
    IF c = <<>> THEN {<<>>}
    ELSE {<<h>> \o t : h \in Unlower(Head(c)), t \in Casings(Tail(c))}

NamedInputs == {
    <<65, 98, 51, 36, 101, 102, 103, 104>>,      \* Ab3$efgh
    <<97, 97, 97, 97, 97, 97, 97, 97>>,          \* aaaaaaaa
    <<99, 98, 97>>, <<51, 50, 49>>,              \* cba 321
    <<65, 66, 68>>, <<67, 66, 65>>,              \* ABD CBA
    <<97, 100, 109, 304, 110>>,                  \* adm + U+0130 + n
    <<65, 98, 51, 36, 107, 120, 113, 122>>,      \* Ab3$kxqz
    <<97, 98, 99, 98, 97>>,                      \* abcba
    <<49, 50, 51, 52, 53, 54, 55, 56, 36>> }     \* 12345678$

Inputs ==
    {pad \o s : pad \in Pads, s \in ShortStrings}
    \cup UNION {Casings(common_passwords[k]) : k \in 1..Len(common_passwords)}
    \cup NamedInputs

(***************************************************************************)
(* Calls of the scanning and scoring functions.                            *)
(***************************************************************************)
Init ==
    /\ pc = "input"
    /\ password \in Inputs
    /\ score = None
    /\ raw_score = None
    /\ feedback = None
    /\ error_shown = FALSE
    /\ seq_ret = None
    /\ rep_ret = None
    /\ length = 0
    /\ gen_password = <<>>
    /\ fill_i = 0
    /\ shuf_i = 0

CallHasSequentialChars ==
    /\ pc = "input"
    /\ pc' = "seq_done"
    /\ seq_ret' = has_sequential_chars(password, min_length)
    /\ UNCHANGED <<password, score, raw_score, feedback, error_shown, rep_ret>>
    /\ UNCHANGED gen_vars

CallHasRepeatedChars ==
    /\ pc = "input"
    /\ pc' = "rep_done"
    /\ rep_ret' = has_repeated_chars(password, min_length)
    /\ UNCHANGED <<password, score, raw_score, feedback, error_shown, seq_ret>>
    /\ UNCHANGED gen_vars

CheckPasswordStrength ==
    /\ pc = "input"
    /\ LET r == check_password_strength(password)
       IN  /\ score' = r.score
           /\ raw_score' = r.raw
           /\ feedback' = r.feedback
           /\ error_shown' = r.error
    /\ pc' = "done"
    /\ UNCHANGED <<password, seq_ret, rep_ret>>
    /\ UNCHANGED gen_vars

Next ==
    \/ CallHasSequentialChars
    \/ CallHasRepeatedChars
    \/ CheckPasswordStrength

Spec == Init /\ [][Next]_vars

(***************************************************************************)
(* generate_strong_password, statement by statement.                       *)
(***************************************************************************)
\* random.choice(seq), lines 40-43: the index drawn.  The exploration follows
\* the draw of the first element of each class.
ClassDraws(seq) == {1}

\* random.choice(all_chars), line 48: the index drawn.  The exploration
\* follows the draws of the second ('B') and of the third ('C') element,
\* which with a mandatory 'A' can form a sequential or a repeated run.
FillDraws(seq) == {2, 3}

\* lines 39-44: the four mandatory characters
MandatoryNoSpecial(u, l, d, s) == <<u, l, d, d>>
Mandatory(u, l, d, s) == <<u, l, d, s>>

\* line 47: range(length - 4) is empty when length - 4 <= 0
FillBoundOffByOne(n) == n - 3
FillBound(n) == n - 4

\* x[i], x[j] = x[j], x[i] with 0-based i and j
Swap(x, i, j) == [x EXCEPT ![i + 1] = x[j + 1], ![j + 1] = x[i + 1]]

GenInit ==
    /\ pc = "gen_call"
    /\ length \in (0 - 1)..MaxGenLen
    /\ password = <<>>
    /\ score = None
    /\ raw_score = None
    /\ feedback = None
    /\ error_shown = FALSE
    /\ seq_ret = None
    /\ rep_ret = None
    /\ gen_password = <<>>
    /\ fill_i = 0
    /\ shuf_i = 0

\* lines 34-44
GenMandatory ==
    /\ pc = "gen_call"
    /\ \E iu \in ClassDraws(uppercase), il \in ClassDraws(lowercase),
          id \in ClassDraws(digits), is \in ClassDraws(specials) :
          gen_password' = Mandatory(uppercase[iu], lowercase[il], digits[id], specials[is])
    /\ fill_i' = 0
    /\ pc' = "fill"
    /\ UNCHANGED <<length, shuf_i>>
    /\ UNCHANGED scorer_vars

\* lines 47-48: one iteration of the fill loop
GenFill ==
    /\ pc = "fill"
    /\ fill_i < FillBound(length)
    /\ \E ic \in FillDraws(all_chars) :
          gen_password' = Append(gen_password, all_chars[ic])
    /\ fill_i' = fill_i + 1
    /\ UNCHANGED <<pc, length, shuf_i>>
    /\ UNCHANGED scorer_vars

\* line 50, entry of random.shuffle: for i in reversed(range(1, len(x)))
GenShuffleStart ==
    /\ pc = "fill"
    /\ ~(fill_i < FillBound(length))
    /\ shuf_i' = Len(gen_password) - 1
    /\ pc' = "shuffle"
    /\ UNCHANGED <<length, gen_password, fill_i>>
    /\ UNCHANGED scorer_vars

\* line 50, one iteration of random.shuffle: j = randbelow(i + 1); swap
GenShuffleStep ==
    /\ pc = "shuffle"
    /\ shuf_i >= 1
    /\ \E j \in 0..shuf_i : gen_password' = Swap(gen_password, shuf_i, j)
    /\ shuf_i' = shuf_i - 1
    /\ UNCHANGED <<pc, length, fill_i>>
    /\ UNCHANGED scorer_vars

\* line 51: ''.join(password) is returned and handed to the scorer
GenReturn ==
    /\ pc = "shuffle"
    /\ shuf_i < 1
    /\ password' = gen_password
    /\ pc' = "input"
    /\ UNCHANGED <<score, raw_score, feedback, error_shown, seq_ret, rep_ret>>
    /\ UNCHANGED gen_vars

GenNext ==
    \/ GenMandatory
    \/ GenFill
    \/ GenShuffleStart
    \/ GenShuffleStep
    \/ GenReturn
    \/ CheckPasswordStrength

GenSpec == GenInit /\ [][GenNext]_vars

\* the scorer's argument is a string generate_strong_password returned
Generated == gen_password # <<>> /\ pc \in {"input", "done"}

(***************************************************************************)
(* Vocabulary of the properties, stated without the operators above.       *)
(***************************************************************************)
Max0(n) == IF n < 0 THEN 0 ELSE n
B2N(b) == IF b THEN 1 ELSE 0
Count(seq, x) == Cardinality({i \in 1..Len(seq) : seq[i] = x})

\* p lower-cased is an entry of the common-password list
CommonCI(p) == lower(p) \in Range(common_passwords)

\* outcome of the tests of rules 2-6 as the scorer performs them
PassLength(p) == Len(p) >= 8
PassUpper(p) == Range(p) \cap (65..90) # {}
PassLower(p) == Range(p) \cap (97..122) # {}
PassDigit(p) == \E c \in Range(p) : IsDecimalDigit(c)
PassSpecial(p) == Range(p) \cap {33, 35, 36, 37, 38, 42, 64, 94} # {}
Positives(p) ==
    B2N(PassLength(p)) + B2N(PassUpper(p)) + B2N(PassLower(p))
        + B2N(PassDigit(p)) + B2N(PassSpecial(p))

\* the 1-based starts of the windows of three consecutive codes
SeqWindows(p) ==
    {i \in 1..(Len(p) - 2) :
        \/ p[i + 1] - p[i] = 1 /\ p[i + 2] - p[i + 1] = 1
        \/ p[i + 1] - p[i] = 0 - 1 /\ p[i + 2] - p[i + 1] = 0 - 1}
SeqRun(p) == SeqWindows(p) # {}
RepRun(p) == \E i \in 1..(Len(p) - 2) : p[i] = p[i + 1] /\ p[i + 1] = p[i + 2]

\* the seven messages in the order of the rules
AllMessages ==
    <<MsgLength, MsgUpper, MsgLower, MsgDigit, MsgSpecial, MsgSequential, MsgRepeated>>
MissingMessages == {MsgLength, MsgUpper, MsgLower, MsgDigit, MsgSpecial}

\* whether message k of AllMessages is due for p
Due(p, k) ==
    CASE k = 1 -> ~PassLength(p)
      [] k = 2 -> ~PassUpper(p)
      [] k = 3 -> ~PassLower(p)
      [] k = 4 -> ~PassDigit(p)
      [] k = 5 -> ~PassSpecial(p)
      [] k = 6 -> SeqRun(p)
      [] k = 7 -> RepRun(p)

\* the due messages, in the order of AllMessages
RECURSIVE DueFrom(_, _)
DueFrom(p, k) ==
    IF k > Len(AllMessages) THEN <<>>
    ELSE (IF Due(p, k) THEN <<AllMessages[k]>> ELSE <<>>) \o DueFrom(p, k + 1)

Ab3efgh == <<65, 98, 51, 36, 101, 102, 103, 104>>

(***************************************************************************)
(* Properties.                                                             *)
(***************************************************************************)
\* C1: the returned score is an integer in 0..5 and equals max(0, raw), where
\* raw is the sum of the +1 contributions of the five positive rules minus
\* the sequential and repeated penalties, as accumulated by the rules that
\* ran (none on the common-password exit); a negative sum is never returned.
C1_ScoreClamped ==
    pc = "done" =>
        /\ score \in 0..5
        /\ score = Max0(raw_score)
        /\ raw_score = IF CommonCI(password) THEN 0
                       ELSE Positives(password) - B2N(SeqRun(password))
                                - B2N(RepRun(password))

C1_Witness ==
    /\ pc = "done"
    /\ ~CommonCI(password)
    /\ Positives(password) - B2N(SeqRun(password)) - B2N(RepRun(password)) < 0
    /\ score = 0

\* C2: a password equal to a common-password entry up to letter casing gets
\* score 0 and an empty feedback list.
C2_CommonZero ==
    (pc = "done" /\ CommonCI(password)) => (score = 0 /\ feedback = <<>>)

C2_Witness ==
    /\ pc = "done"
    /\ CommonCI(password)
    /\ password # lower(password)
    /\ SeqRun(password)
    /\ feedback = <<>>

\* C3: for a requested length n >= 4 the generated string has exactly n
\* characters, at least one of each of the four classes, and no character
\* outside the four classes.
C3_GeneratedShape ==
    (Generated /\ length >= 4) =>
        /\ Len(password) = length
        /\ Range(password) \cap Range(uppercase) # {}
        /\ Range(password) \cap Range(lowercase) # {}
        /\ Range(password) \cap Range(digits) # {}
        /\ Range(password) \cap Range(specials) # {}
        /\ Range(password) \subseteq
               Range(uppercase) \cup Range(lowercase) \cup Range(digits) \cup Range(specials)

C3_Witness ==
    /\ Generated
    /\ pc = "input"
    /\ length = 8
    /\ Len(password) = 8
    /\ password[1] # 65

\* C4 as stated: for every length n >= 4 the generated password gets none of
\* the five 'missing' messages, is not treated as common, and scores below 5
\* only through a penalty.
C4_Original ==
    (Generated /\ pc = "done" /\ length >= 4) =>
        /\ Range(feedback) \cap MissingMessages = {}
        /\ ~error_shown
        /\ score < 5 => Range(feedback) \cap {MsgSequential, MsgRepeated} # {}

\* C4 amended: for every length n >= 8 the generated password gets none of
\* the five 'missing' messages, is not treated as common, and scores below 5
\* only through the sequential or repeated penalty.
C4_GeneratedPositive ==
    (Generated /\ pc = "done" /\ length >= 8) =>
        /\ Range(feedback) \cap MissingMessages = {}
        /\ ~error_shown
        /\ raw_score = 5 - Len(feedback)
        /\ score < 5 => Range(feedback) \cap {MsgSequential, MsgRepeated} # {}

C4_Witness ==
    /\ Generated
    /\ pc = "done"
    /\ length >= 8
    /\ score = 4
    /\ feedback = <<MsgSequential>>

\* C5 as stated: "Ab3$efgh" scores 5 with empty feedback.
C5_Original ==
    (pc = "done" /\ password = Ab3efgh) => (score = 5 /\ feedback = <<>>)

\* C5 amended: "Ab3$efgh" passes the five positive rules and has no repeated
\* run, but holds the sequential run "efg": score 4, feedback the sequential
\* message alone.
C5_Example ==
    (pc = "done" /\ password = Ab3efgh) =>
        (score = 4 /\ feedback = <<MsgSequential>>)

C5_Witness == pc = "done" /\ password = Ab3efgh /\ score = 4

\* C6: generate_strong_password returns no string for a length below 4.
C6_Rejected == Generated => length >= 4

\* C7: has_sequential_chars is true exactly when some window of three has
\* both code differences +1 or both -1; false below three characters and for
\* "ABD", "acb"; true for "ABC", "CBA".  When rule 7 runs, the scorer takes
\* off exactly 1 and appends the sequential message exactly once if so.
C7_Sequential ==
    /\ pc = "seq_done" =>
        /\ seq_ret = SeqRun(password)
        /\ Len(password) < 3 => seq_ret = FALSE
        /\ password \in {<<65, 66, 68>>, <<97, 99, 98>>} => seq_ret = FALSE
        /\ password \in {<<65, 66, 67>>, <<67, 66, 65>>} => seq_ret = TRUE
    /\ (pc = "done" /\ ~error_shown) =>
        /\ Count(feedback, MsgSequential) = B2N(SeqRun(password))
        /\ raw_score = Positives(password) - B2N(SeqRun(password))
                           - B2N(RepRun(password))

C7_Witness ==
    /\ pc = "done"
    /\ ~error_shown
    /\ Cardinality(SeqWindows(password)) >= 2
    /\ \E i \in SeqWindows(password) : password[i + 1] < password[i]
    /\ Count(feedback, MsgSequential) = 1

C9_AsciiClasses ==
    (pc = "done" /\ ~error_shown) =>
        /\ (MsgDigit \notin Range(feedback)) <=> (Range(password) \cap (48..57) # {})
        /\ (Range(password) \cap (Range(uppercase) \cup Range(lowercase)
                \cup Range(digits) \cup Range(specials)) = {})
              => {MsgUpper, MsgLower, MsgDigit, MsgSpecial} \subseteq Range(feedback)

\* C10: for a password that is not common, score = max(0, 5 - len(feedback));
\* score 5 exactly when the feedback is empty; five or more messages give 0.
C10_ScoreFromFeedback ==
    (pc = "done" /\ ~CommonCI(password)) =>
        /\ score = Max0(5 - Len(feedback))
        /\ (score = 5) <=> (feedback = <<>>)
        /\ Len(feedback) >= 5 => score = 0

C10_Witness ==
    /\ pc = "done"
    /\ ~CommonCI(password)
    /\ Len(feedback) = 6
    /\ score = 0

====
